---- MODULE Spec2Model ----
(***************************************************************************)
(* Model of the chat page (frontend/pages/index.tsx, ChatPage).  State is *)
(* the component's React state plus the fetches in flight and the wall     *)
(* clock read by Date.now().  Each event handler, and each continuation    *)
(* that runs when a fetch settles, is one action: the event loop runs it   *)
(* to completion and React re-renders before the next event is dispatched. *)
(* A fetch and the response.json() that follows it settle in one step: the *)
(* handlers change no state between the two awaits.                        *)
(*                                                                         *)
(* Strings are sequences of segments; a segment is either the whitespace   *)
(* character " " or a run of non-whitespace text.                          *)
(***************************************************************************)
EXTENDS Integers, Sequences, FiniteSets, TLC

\* ---- bounds of the model ----
\* the last millisecond the clock reaches
MaxClock == 1
\* accepted submissions
MaxSubmits == 2
\* runs of the mount effect (one per mount; React may run it again)
MaxConnects == 1
\* requests the tools proxy receives
MaxProxyRequests == 2

VARIABLES
  messages,          \* useState<Message[]>            line 26
  inputValue,        \* useState('')                   line 27
  isLoading,         \* useState(false)                line 28
  availableTools,    \* useState<Tool[]>([])           line 29
  connectionStatus,  \* useState(... 'disconnected')   line 30
  now,               \* the value Date.now() returns
  connectPending,    \* fetches of /api/connect not yet settled
  toolsPending,      \* fetches of /api/tools not yet settled
  chatPending,       \* fetches of /api/chat not yet settled (their bodies)
  connectCalls,      \* history: calls of initializeConnection
  chatCalls,         \* history: fetches of /api/chat started
  ev,                \* history: the last handler run (ticks and typing keep it)
  exch,              \* history: the last accepted submission
  proxy              \* tools proxy: requests awaiting the backend, and the
                     \* exchanges it has answered

pageVars ==
  <<messages, inputValue, isLoading, availableTools, connectionStatus,
    now, connectPending, toolsPending, chatPending,
    connectCalls, chatCalls, ev, exch>>

vars == <<pageVars, proxy>>

\* ---- JavaScript values ----
\* an optional array: undefined, or an array
Undefined == [def |-> FALSE, val |-> <<>>]
Arr(s) == [def |-> TRUE, val |-> s]
\* x || []  (undefined is falsy, every array is truthy)
OrEmpty(x) == IF x.def THEN x ELSE Arr(<<>>)

WS == " "

RECURSIVE TrimStart(_)
TrimStart(s) ==
  IF s # <<>> /\ Head(s) = WS THEN TrimStart(Tail(s)) ELSE s

RECURSIVE TrimEnd(_)
TrimEnd(s) ==
  IF s # <<>> /\ s[Len(s)] = WS THEN TrimEnd(SubSeq(s, 1, Len(s) - 1)) ELSE s

\* String.prototype.trim
Trim(s) == TrimEnd(TrimStart(s))

\* ---- inputs ----
Texts == { <<WS>>, <<"hi", WS>> }

ToolA == [name |-> "A", description |-> "a", inputSchema |-> "{}"]
ToolB == [name |-> "B", description |-> "b", inputSchema |-> "{}"]
ToolLists == { <<>>, <<ToolA, ToolB>> }

CallSearch == [tool_name |-> "search", arguments |-> "{q:x}", result |-> "y"]
CallCalc == [tool_name |-> "calc", arguments |-> "{a:1}", result |-> "2"]

\* turns the backend may return: assistant text without a tool_calls field,
\* and a turn of another role with empty content carrying two tool calls
TurnText ==
  [role |-> "assistant", content |-> <<"hello">>, tool_calls |-> Undefined]
TurnTools ==
  [role |-> "tool", content |-> <<>>,
   tool_calls |-> Arr(<<CallSearch, CallCalc>>)]

\* the values of result.messages in a decoded response
Batches == { <<>>, <<TurnText>>, <<TurnTools>>, <<TurnTools, TurnText>> }

NoResponseText == <<"No response received">>
ErrorText == <<"Sorry, I encountered an error processing your request.">>

\* ---- messages built by sendMessage ----
\* the user turn created with the 'sending' status and never updated
UserMessage_Sending(text, t) ==
  [id |-> ToString(t), role |-> "user", content |-> text,
   tool_calls |-> Undefined, timestamp |-> t, status |-> "sending"]

\* lines 81-87: the user turn; Date.now() read at time t
UserMessage(text, t) ==
  [id |-> ToString(t), role |-> "user", content |-> text,
   tool_calls |-> Undefined, timestamp |-> t, status |-> "sent"]

\* the error turn marked 'sent' like every other turn
ErrorMessage_Sent(t) ==
  [id |-> ToString(t + 1), role |-> "assistant", content |-> ErrorText,
   tool_calls |-> Undefined, timestamp |-> t, status |-> "sent"]

\* lines 132-138: the synthetic error turn
ErrorMessage(t) ==
  [id |-> ToString(t + 1), role |-> "assistant", content |-> ErrorText,
   tool_calls |-> Undefined, timestamp |-> t, status |-> "error"]

\* the tool calls of the backend's turn are dropped
MapMessage_NoToolCalls(msg, t) ==
  [id |-> ToString(t), role |-> msg.role, content |-> msg.content,
   tool_calls |-> Arr(<<>>), timestamp |-> t, status |-> "sent"]

\* lines 122-127: one element of result.messages.map(...)
MapMessage(msg, t) ==
  [id |-> ToString(t), role |-> msg.role, content |-> msg.content,
   tool_calls |-> OrEmpty(msg.tool_calls), timestamp |-> t, status |-> "sent"]

\* only the last turn of the batch is appended
MapBatch_LastOnly(batch, stamps) ==
  << MapMessage(batch[Len(batch)], stamps[Len(batch)]) >>

\* lines 121-128: result.messages.map(...); stamps[i] is what Date.now()
\* returned for element i
MapBatch(batch, stamps) ==
  [i \in 1..Len(batch) |-> MapMessage(batch[i], stamps[i])]

\* successive readings of Date.now() inside one synchronous map: the first
\* is the current time, the clock never runs backwards
Stamps(n, t) ==
  { s \in [1..n -> t..MaxClock] :
      /\ n > 0 => s[1] = t
      /\ \A i \in 1..(n - 1) : s[i] <= s[i + 1] }

\* ---- what a settled fetch of /api/chat can deliver ----
ChatFailKinds == {"network_error", "not_ok", "decode_error", "no_messages"}
ChatOutcomes ==
  { [kind |-> k, batch |-> <<>>] : k \in ChatFailKinds }
    \cup { [kind |-> "ok", batch |-> b] : b \in Batches }

\* lines 94-119: does the try block throw before setMessages?
\*   fetch rejects (94), !response.ok (104-106), response.json() rejects
\*   (108), result.messages undefined so .length throws (110), batch empty
\*   so lastMessage is undefined and lastMessage.role throws (114)
TryThrows(o) == o.kind # "ok" \/ o.batch = <<>>

\* ---- what a settled fetch of /api/tools can deliver ----
\*   null_body: json() yields null, tools.tools throws TypeError
\*   no_tools : json() yields an object without a tools field
ToolsFailKinds == {"network_error", "not_ok", "decode_error", "null_body",
                   "no_tools"}
NoBatch == <<>>
ToolsOutcomes ==
  { [kind |-> k, tools |-> <<>>] : k \in ToolsFailKinds }
    \cup { [kind |-> "ok", tools |-> l] : l \in ToolLists }

\* lines 67-75: the value of availableTools after loadTools has run
ToolsAfterLoad(o, cur) ==
  CASE o.kind = "ok" -> Arr(o.tools)
    [] o.kind = "no_tools" -> Undefined
    [] OTHER -> cur

ConnectOutcomes == {"ok", "not_ok", "network_error"}

\* ---- the rendered controls ----
\* the input disabled only while a submission is loading
InputDisabled_LoadingOnly == isLoading

\* line 349: disabled attribute of the text input
InputDisabled == isLoading \/ connectionStatus # "connected"

\* line 362: disabled attribute of the send button
ButtonDisabled ==
  Trim(inputValue) = <<>> \/ isLoading \/ connectionStatus # "connected"

Event(op, arg) == [op |-> op, arg |-> arg, batch |-> NoBatch]

NoExchange == [pre |-> <<>>, text |-> <<>>]

Init ==
  /\ messages = <<>>
  /\ inputValue = <<>>
  /\ isLoading = FALSE
  /\ availableTools = Arr(<<>>)
  /\ connectionStatus = "disconnected"
  /\ now = 0
  /\ connectPending = 0
  /\ toolsPending = 0
  /\ chatPending = <<>>
  /\ connectCalls = 0
  /\ chatCalls = 0
  /\ ev = Event("init", "none")
  /\ exch = NoExchange
  /\ proxy = [pending |-> <<>>, answered |-> <<>>]

\* time passes
Tick ==
  /\ now < MaxClock
  /\ now' = now + 1
  /\ UNCHANGED <<ev, messages, inputValue, isLoading, availableTools,
                 connectionStatus, connectPending, toolsPending, chatPending,
                 connectCalls, chatCalls, exch>>

\* lines 47-52: initializeConnection up to its first await (run by the mount
\* effect, lines 34-40, each time React runs that effect)
initializeConnection ==
  /\ connectCalls < MaxConnects
  /\ connectionStatus' = "connecting"
  /\ connectPending' = connectPending + 1
  /\ connectCalls' = connectCalls + 1
  /\ ev' = Event("connect", "start")
  /\ UNCHANGED <<messages, inputValue, isLoading, availableTools, now,
                 toolsPending, chatPending, chatCalls, exch>>

\* a failed handshake leaves the state at 'connecting'
ConnectResponse_StaysConnecting(o) ==
  /\ connectPending > 0
  /\ connectPending' = connectPending - 1
  /\ IF o = "ok"
       THEN /\ connectionStatus' = "connected"
            /\ toolsPending' = toolsPending + 1
       ELSE UNCHANGED <<connectionStatus, toolsPending>>
  /\ ev' = Event("connectResponse", o)
  /\ UNCHANGED <<messages, inputValue, isLoading, availableTools, now,
                 chatPending, connectCalls, chatCalls, exch>>

\* loadTools is called whatever the handshake's outcome
ConnectResponse_AlwaysLoads(o) ==
  /\ connectPending > 0
  /\ connectPending' = connectPending - 1
  /\ connectionStatus' = IF o = "ok" THEN "connected" ELSE "disconnected"
  /\ toolsPending' = toolsPending + 1
  /\ ev' = Event("connectResponse", o)
  /\ UNCHANGED <<messages, inputValue, isLoading, availableTools, now,
                 chatPending, connectCalls, chatCalls, exch>>

\* lines 54-63: the handshake settled; on success loadTools is called and
\* runs to its fetch (line 68)
ConnectResponse(o) ==
  /\ connectPending > 0
  /\ connectPending' = connectPending - 1
  /\ IF o = "ok"
       THEN /\ connectionStatus' = "connected"
            /\ toolsPending' = toolsPending + 1
       ELSE /\ connectionStatus' = "disconnected"
            /\ UNCHANGED toolsPending
  /\ ev' = Event("connectResponse", o)
  /\ UNCHANGED <<messages, inputValue, isLoading, availableTools, now,
                 chatPending, connectCalls, chatCalls, exch>>

\* a load that settles resets the timeline
LoadToolsResponse_ClearsMessages(o) ==
  /\ toolsPending > 0
  /\ toolsPending' = toolsPending - 1
  /\ availableTools' = ToolsAfterLoad(o, availableTools)
  /\ messages' = <<>>
  /\ ev' = Event("toolsResponse", o.kind)
  /\ UNCHANGED <<inputValue, isLoading, connectionStatus, now,
                 connectPending, chatPending, connectCalls, chatCalls, exch>>

\* a failed load drops the connection
LoadToolsResponse_Disconnects(o) ==
  /\ toolsPending > 0
  /\ toolsPending' = toolsPending - 1
  /\ availableTools' = ToolsAfterLoad(o, availableTools)
  /\ connectionStatus' =
       IF o.kind = "ok" THEN connectionStatus ELSE "disconnected"
  /\ ev' = Event("toolsResponse", o.kind)
  /\ UNCHANGED <<messages, inputValue, isLoading, now, connectPending,
                 chatPending, connectCalls, chatCalls, exch>>

\* lines 69-75: the fetch of /api/tools settled (and response.json() with it)
LoadToolsResponse(o) ==
  /\ toolsPending > 0
  /\ toolsPending' = toolsPending - 1
  /\ availableTools' = ToolsAfterLoad(o, availableTools)
  /\ ev' = Event("toolsResponse", o.kind)
  /\ UNCHANGED <<messages, inputValue, isLoading, connectionStatus, now,
                 connectPending, chatPending, connectCalls, chatCalls, exch>>

\* line 345: onChange of the input; a disabled input takes no typing
OnChange(v) ==
  /\ ~InputDisabled
  /\ inputValue' = v
  /\ UNCHANGED <<ev, messages, isLoading, availableTools, connectionStatus, now,
                 connectPending, toolsPending, chatPending, connectCalls,
                 chatCalls, exch>>

\* the input is tested without trimming
SendGuard_NoTrim == inputValue # <<>> /\ ~isLoading

\* line 79: sendMessage goes past its early return
SendGuard == Trim(inputValue) # <<>> /\ ~isLoading

\* the trimmed text is sent
ChatBody_Trimmed(text) == [query |-> Trim(text)]

\* lines 99-101: the body of the request to /api/chat
ChatBody(text) == [query |-> text]

\* setMessages([userMessage]): the turn replaces the timeline
SendAccepted_Overwrites ==
  /\ messages' = << UserMessage(inputValue, now) >>
  /\ inputValue' = <<>>
  /\ isLoading' = TRUE
  /\ chatPending' = Append(chatPending, ChatBody(inputValue))
  /\ chatCalls' = chatCalls + 1
  /\ exch' = [pre |-> messages, text |-> inputValue]
  /\ ev' = Event("submit", "accepted")
  /\ UNCHANGED <<availableTools, connectionStatus, now, connectPending,
                 toolsPending, connectCalls>>

\* the user turn is not appended when the request is sent
SendAccepted_NoOptimistic ==
  /\ inputValue' = <<>>
  /\ isLoading' = TRUE
  /\ chatPending' = Append(chatPending, ChatBody(inputValue))
  /\ chatCalls' = chatCalls + 1
  /\ exch' = [pre |-> messages, text |-> inputValue]
  /\ ev' = Event("submit", "accepted")
  /\ UNCHANGED <<messages, availableTools, connectionStatus, now,
                 connectPending, toolsPending, connectCalls>>

\* the loading flag is not raised
SendAccepted_NoLoading ==
  /\ messages' = Append(messages, UserMessage(inputValue, now))
  /\ inputValue' = <<>>
  /\ chatPending' = Append(chatPending, ChatBody(inputValue))
  /\ chatCalls' = chatCalls + 1
  /\ exch' = [pre |-> messages, text |-> inputValue]
  /\ ev' = Event("submit", "accepted")
  /\ UNCHANGED <<isLoading, availableTools, connectionStatus, now,
                 connectPending, toolsPending, connectCalls>>

\* lines 81-102: the turn is appended, the input cleared, the flag raised
\* and the request sent with the text of this render
SendAccepted ==
  /\ messages' = Append(messages, UserMessage(inputValue, now))
  /\ inputValue' = <<>>
  /\ isLoading' = TRUE
  /\ chatPending' = Append(chatPending, ChatBody(inputValue))
  /\ chatCalls' = chatCalls + 1
  /\ exch' = [pre |-> messages, text |-> inputValue]
  /\ ev' = Event("submit", "accepted")
  /\ UNCHANGED <<availableTools, connectionStatus, now, connectPending,
                 toolsPending, connectCalls>>

\* nothing happens: the control is disabled, or sendMessage returned early
SendNothing(why) ==
  /\ ev' = Event("submit", why)
  /\ UNCHANGED <<messages, inputValue, isLoading, availableTools,
                 connectionStatus, now, connectPending, toolsPending,
                 chatPending, connectCalls, chatCalls, exch>>

\* lines 78-102: sendMessage up to its first await
sendMessage ==
  IF SendGuard THEN SendAccepted ELSE SendNothing("rejected")

\* lines 360-362: the user clicks the send button
ClickSend ==
  /\ chatCalls < MaxSubmits
  /\ IF ButtonDisabled THEN SendNothing("ignored")
                       ELSE sendMessage

\* lines 146-151, 346: the user presses Enter (without shift) in the input
handleKeyPress ==
  /\ chatCalls < MaxSubmits
  /\ IF InputDisabled THEN SendNothing("ignored")
                      ELSE sendMessage

\* the flag is never lowered
LoadingAfterFinally_Never(o) == TRUE

\* the flag is lowered at the end of the try block only
LoadingAfterFinally_TryOnly(o) == TryThrows(o)

\* lines 141-143: the finally block, setIsLoading(false)
LoadingAfterFinally(o) == FALSE

\* lines 104-143: the fetch of /api/chat settled (and response.json() with
\* it); the rest of the try block, the catch and the finally
ChatResponse(i, o) ==
  /\ i \in 1..Len(chatPending)
  /\ chatPending' = SubSeq(chatPending, 1, i - 1)
                      \o SubSeq(chatPending, i + 1, Len(chatPending))
  /\ IF TryThrows(o)
       THEN /\ messages' = Append(messages, ErrorMessage(now))
            /\ now' = now
       ELSE \E stamps \in Stamps(Len(o.batch), now) :
              /\ messages' = messages \o MapBatch(o.batch, stamps)
              /\ now' = stamps[Len(o.batch)]
  /\ isLoading' = LoadingAfterFinally(o)
  /\ ev' = [op |-> "chatResponse", arg |-> o.kind, batch |-> o.batch]
  /\ UNCHANGED <<exch, inputValue, availableTools, connectionStatus,
                 connectPending, toolsPending, connectCalls, chatCalls>>

\* the page; the proxy runs in the server and shares no state with it
Next ==
  /\ UNCHANGED proxy
  /\ \/ Tick
     \/ initializeConnection
     \/ \E o \in ConnectOutcomes : ConnectResponse(o)
     \/ \E o \in ToolsOutcomes : LoadToolsResponse(o)
     \/ \E v \in Texts : OnChange(v)
     \/ ClickSend
     \/ handleKeyPress
     \/ \E i \in 1..MaxSubmits, o \in ChatOutcomes : ChatResponse(i, o)

Spec == Init /\ [][Next]_vars

\* the event loop runs the continuation of every fetch that settles
LiveSpec ==
  /\ Init /\ [][Next]_vars
  /\ WF_vars(/\ UNCHANGED proxy
             /\ \E i \in 1..MaxSubmits, o \in ChatOutcomes :
                  ChatResponse(i, o))

\* ---- the tools proxy (pages/api/tools handler) ----
Methods == {"GET", "POST", "DELETE"}

\* JSON bodies: whether the value is an object with a string field error,
\* and what else it holds
ToolsJson == [hasError |-> FALSE, payload |-> "tools"]
DetailJson == [hasError |-> FALSE, payload |-> "detail"]
BackendErrorJson == [hasError |-> TRUE, payload |-> "backend down"]
NoJson == [hasError |-> FALSE, payload |-> "none"]
\* { error: msg }
ErrorJson(msg) == [hasError |-> TRUE, payload |-> msg]

BackendStatuses == {200, 201, 400, 404, 500, 503}

\* what the fetch of BACKEND_URL/api/tools can deliver: it rejects, or it
\* resolves with a status and a body that decodes as JSON or does not
Unreachable ==
  [reached |-> FALSE, status |-> 0, decodable |-> FALSE, json |-> NoJson]
BackendOutcomes ==
  { Unreachable }
    \cup { [reached |-> TRUE, status |-> st, decodable |-> TRUE, json |-> j] :
             st \in BackendStatuses,
             j \in {ToolsJson, DetailJson, BackendErrorJson} }
    \cup { [reached |-> TRUE, status |-> st, decodable |-> FALSE,
             json |-> NoJson] : st \in BackendStatuses }

\* Response.ok
ResponseOk(st) == st >= 200 /\ st <= 299

\* lines 404-407: the catch block
ProxyFailure == [status |-> 500, body |-> ErrorJson("Internal server error")]

\* lines 385-387: a method other than GET is answered at once
MethodNotAllowed ==
  [status |-> 405, body |-> ErrorJson("Method not allowed")]

\* lines 389-407: the answer once the fetch of the backend has settled
handler(b) ==
  IF ~b.reached THEN ProxyFailure
  ELSE IF ~ResponseOk(b.status)
    THEN IF b.decodable THEN [status |-> b.status, body |-> b.json]
                        ELSE ProxyFailure
    ELSE IF b.decodable THEN [status |-> 200, body |-> b.json]
                        ELSE ProxyFailure

Received == Len(proxy.pending) + Len(proxy.answered)

\* lines 381-395: a request arrives; GET goes on to the backend
ProxyRequest(m) ==
  /\ Received < MaxProxyRequests
  /\ proxy' =
       IF m # "GET"
         THEN [proxy EXCEPT !.answered =
                 Append(@, [method |-> m, backend |-> Unreachable,
                            res |-> MethodNotAllowed])]
         ELSE [proxy EXCEPT !.pending = Append(@, m)]
  /\ UNCHANGED pageVars

\* lines 397-407: the backend fetch of request i settled
ProxyBackendSettles(i, b) ==
  /\ i \in 1..Len(proxy.pending)
  /\ proxy' =
       [pending |-> SubSeq(proxy.pending, 1, i - 1)
                      \o SubSeq(proxy.pending, i + 1, Len(proxy.pending)),
        answered |-> Append(proxy.answered,
                            [method |-> proxy.pending[i], backend |-> b,
                             res |-> handler(b)])]
  /\ UNCHANGED pageVars

ProxyNext ==
  \/ \E m \in Methods : ProxyRequest(m)
  \/ \E i \in 1..MaxProxyRequests, b \in BackendOutcomes :
       ProxyBackendSettles(i, b)

ProxySpec == Init /\ [][ProxyNext]_vars

TypeOK ==
  /\ isLoading \in BOOLEAN
  /\ connectionStatus \in {"disconnected", "connecting", "connected"}
  /\ inputValue \in Texts \cup {<<>>}
  /\ now \in 0..MaxClock

\* ---- properties ----

SubmitAttempt == ClickSend \/ handleKeyPress

PendingTurns == { i \in DOMAIN messages : messages[i].status = "sending" }

\* the timeline is the one the last accepted submission found, then its user
\* turn, then k further turns
GrewBy(k) ==
  LET p == Len(exch.pre) IN
    /\ Len(messages) = p + 1 + k
    /\ SubSeq(messages, 1, p) = exch.pre
    /\ messages[p + 1].role = "user"
    /\ messages[p + 1].content = exch.text
    /\ messages[p + 1].status = "sent"

\* C1: a submit attempt (click on the send button, Enter in the input) made
\* while connectionStatus is not 'connected' starts no fetch of /api/chat
\* and leaves the message list unchanged.
C1_NoSubmitUnlessConnected ==
  [][ (SubmitAttempt /\ connectionStatus # "connected")
        => /\ chatCalls' = chatCalls
           /\ chatPending' = chatPending
           /\ messages' = messages ]_vars

\* a submit attempt was made while connecting or disconnected
C1_Witness ==
  /\ ev = Event("submit", "ignored")
  /\ connectionStatus # "connected"
  /\ ~isLoading

\* C2: after a successful response whose messages batch is empty the
\* timeline holds, after the user turn, exactly one new turn: an assistant
\* turn with content 'No response received' and status 'sent'.
C2_EmptyBatchNoResponseTurn ==
  (ev.op = "chatResponse" /\ ev.arg = "ok" /\ ev.batch = <<>>)
    => /\ GrewBy(1)
       /\ messages[Len(messages)].role = "assistant"
       /\ messages[Len(messages)].content = NoResponseText
       /\ messages[Len(messages)].status = "sent"

\* C3: at most one fetch of /api/chat is in flight at any time, and a submit
\* attempt made while one is in flight starts no further fetch and leaves
\* the message list unchanged.
C3_SingleOutstanding ==
  /\ [](Len(chatPending) <= 1)
  /\ [][ (SubmitAttempt /\ chatPending # <<>>)
           => /\ chatCalls' = chatCalls
              /\ chatPending' = chatPending
              /\ messages' = messages ]_vars

\* a submit attempt was made while a chat request was in flight
C3_Witness ==
  /\ ev = Event("submit", "ignored")
  /\ Len(chatPending) = 1
  /\ isLoading

\* C4: no two turns of the message list have the same id.
C4_UniqueIds ==
  \A i, j \in DOMAIN messages : i # j => messages[i].id # messages[j].id

\* C5: at most one turn of the message list has the pending ('sending')
\* status, and such a turn is the last element of the list.
C5_AtMostOnePendingLast ==
  /\ Cardinality(PendingTurns) <= 1
  /\ \A i \in PendingTurns : i = Len(messages)

\* a second submission is outstanding, its user turn last in the list
C5_Witness ==
  /\ Len(chatPending) = 1
  /\ Len(messages) >= 3
  /\ messages[Len(messages)].role = "user"

\* C6: after a chat request that failed (network error, non-success status,
\* undecodable or ill-shaped body) the timeline holds, after the user turn,
\* exactly one new turn: an assistant turn with status 'error' and the fixed
\* error text; no turn is pending, and the handler has completed (the flag
\* is lowered, the request is gone).
C6_FailureAddsOneErrorTurn ==
  (ev.op = "chatResponse" /\ ev.arg \in ChatFailKinds)
    => /\ GrewBy(1)
       /\ messages[Len(messages)].role = "assistant"
       /\ messages[Len(messages)].content = ErrorText
       /\ messages[Len(messages)].status = "error"
       /\ PendingTurns = {}
       /\ ~isLoading
       /\ chatPending = <<>>

\* a chat request was answered with a non-success status
C6_Witness ==
  /\ ev.op = "chatResponse"
  /\ ev.arg = "not_ok"
  /\ Len(messages) >= 2

\* C7: every accepted submission finishes: once the chat request is in
\* flight, a state follows in which no request is in flight, no turn is
\* pending and the loading flag is false, so that sendMessage accepts again.
C7_SubmissionFinishes ==
  (chatPending # <<>> \/ isLoading)
    ~> (chatPending = <<>> /\ ~isLoading /\ PendingTurns = {})

\* a submission has finished after an undecodable response
C7_Witness ==
  /\ ev.op = "chatResponse"
  /\ ev.arg = "decode_error"
  /\ ~isLoading
  /\ chatPending = <<>>

\* C8: after a successful response with a non-empty batch of n turns the
\* timeline is the earlier timeline, the user turn, and the n batch turns in
\* the order received, each with status 'sent' and the role and content the
\* backend returned.
C8_BatchAppendedInOrder ==
  (ev.op = "chatResponse" /\ ev.arg = "ok" /\ ev.batch # <<>>)
    => /\ GrewBy(Len(ev.batch))
       /\ \A k \in 1..Len(ev.batch) :
            LET m == messages[Len(exch.pre) + 1 + k] IN
              /\ m.role = ev.batch[k].role
              /\ m.content = ev.batch[k].content
              /\ m.status = "sent"

\* a two-turn batch was received on an empty timeline
C8_Witness ==
  /\ ev.op = "chatResponse"
  /\ ev.batch = <<TurnTools, TurnText>>
  /\ exch.pre = <<>>
  /\ Len(messages) = 3

\* C9: a successful load replaces the tool snapshot by the fetched list, and
\* a failed load (network error, non-success status, undecodable or
\* ill-shaped body) leaves the snapshot as it was.
C9_SnapshotReplacedOrKept ==
  [][ \A o \in ToolsOutcomes :
        LoadToolsResponse(o)
          => availableTools' = IF o.kind = "ok" THEN Arr(o.tools)
                                                ELSE availableTools ]_vars

\* C10: initializeConnection sets 'connecting' and starts the handshake; a
\* successful handshake sets 'connected' and starts exactly one fetch of
\* /api/tools, which nothing else starts; a failed load leaves the
\* connection state as it was.
C10_ConnectThenOneLoad ==
  [][ /\ initializeConnection
        => (connectionStatus' = "connecting"
              /\ connectPending' = connectPending + 1
              /\ toolsPending' = toolsPending)
      /\ ConnectResponse("ok")
        => (connectionStatus' = "connected"
              /\ toolsPending' = toolsPending + 1)
      /\ toolsPending' > toolsPending => ConnectResponse("ok")
      /\ \A o \in ToolsOutcomes :
           (LoadToolsResponse(o) /\ o.kind # "ok")
             => connectionStatus' = connectionStatus ]_vars

\* the load that followed a successful handshake failed
C10_Witness ==
  /\ ev = Event("toolsResponse", "network_error")
  /\ connectionStatus = "connected"
  /\ toolsPending = 0

\* does s begin with p?
IsPrefix(p, s) == Len(p) <= Len(s) /\ SubSeq(s, 1, Len(p)) = p

\* every segment of s is whitespace
AllWhitespace(s) == \A k \in DOMAIN s : s[k] = WS

\* C11: when the handshake fails (network error or non-success response)
\* the state becomes 'disconnected', no fetch of /api/tools is started and
\* no new handshake is started: only initializeConnection starts one.
C11_FailedHandshakeDisconnects ==
  [][ /\ \A o \in ConnectOutcomes \ {"ok"} :
           ConnectResponse(o)
             => /\ connectionStatus' = "disconnected"
                /\ toolsPending' = toolsPending
                /\ connectPending' = connectPending - 1
                /\ connectCalls' = connectCalls
      /\ (connectPending' > connectPending \/ connectCalls' # connectCalls)
           => initializeConnection ]_vars

\* the only handshake failed by a network error and nothing is in flight
C11_Witness ==
  /\ ev = Event("connectResponse", "network_error")
  /\ connectionStatus = "disconnected"
  /\ connectPending = 0
  /\ toolsPending = 0

\* C12: the timeline is append-only: every step leaves the turns that
\* existed before it as an unchanged prefix of the timeline.
C12_AppendOnly == [][ IsPrefix(messages, messages') ]_vars

\* two exchanges have been appended to the timeline
C12_Witness ==
  /\ Len(messages) >= 4
  /\ Len(exch.pre) >= 2
  /\ chatPending = <<>>

\* C13: a step that accepts a submission starts exactly one fetch of
\* /api/chat whose body has the single field query, holding the text that
\* was in the input (untrimmed); the step that handles the response, failed
\* or not, starts none; so the fetches started equal the submissions
\* accepted.
C13_OneCallRawText ==
  [][ /\ (SubmitAttempt /\ messages' # messages)
           => /\ chatCalls' = chatCalls + 1
              /\ Len(chatPending') = Len(chatPending) + 1
              /\ chatPending'[Len(chatPending')] = [query |-> inputValue]
              /\ messages'[Len(messages')].content = inputValue
      /\ chatCalls' # chatCalls => (SubmitAttempt /\ messages' # messages)
      /\ \A i \in 1..MaxSubmits, o \in ChatOutcomes :
           ChatResponse(i, o)
             => /\ chatCalls' = chatCalls
                /\ Len(chatPending') = Len(chatPending) - 1 ]_vars

\* a failed exchange is over: one fetch was started and none is in flight
C13_Witness ==
  /\ ev.op = "chatResponse"
  /\ ev.arg = "network_error"
  /\ chatCalls = 1
  /\ chatPending = <<>>
  /\ exch.text = <<"hi", WS>>

\* C14: a submit attempt whose input is empty or all whitespace starts no
\* fetch, appends no turn and leaves the input value and the loading flag
\* as they were.
C14_BlankInputRejected ==
  [][ (SubmitAttempt /\ AllWhitespace(inputValue))
        => /\ chatCalls' = chatCalls
           /\ chatPending' = chatPending
           /\ messages' = messages
           /\ inputValue' = inputValue
           /\ isLoading' = isLoading ]_vars

\* sendMessage returned early on an input of one space
C14_Witness ==
  /\ ev = Event("submit", "rejected")
  /\ inputValue = <<WS>>
  /\ connectionStatus = "connected"

\* C15: a fetch of /api/tools starts only in the continuation of a
\* successful handshake, after the state was set to 'connected'; while one
\* is in flight at least one handshake has settled.
C15_LoadOnlyAfterConnect ==
  /\ [](toolsPending > 0 => connectCalls > connectPending)
  /\ [][ toolsPending' > toolsPending
           => /\ connectPending > 0
              /\ connectPending' = connectPending - 1
              /\ connectionStatus' = "connected"
              /\ ev' = Event("connectResponse", "ok") ]_vars

\* the load started by the successful handshake is in flight
C15_Witness ==
  /\ toolsPending = 1
  /\ ev = Event("connectResponse", "ok")
  /\ connectionStatus = "connected"

\* C17: every turn stored from a successful batch carries the tool calls the
\* backend returned for it, the same elements in the same order; a turn
\* returned without tool_calls is stored with an empty sequence.
C17_ToolCallsStoredAsReturned ==
  (ev.op = "chatResponse" /\ ev.arg = "ok" /\ ev.batch # <<>>)
    => /\ Len(messages) = Len(exch.pre) + 1 + Len(ev.batch)
       /\ \A k \in 1..Len(ev.batch) :
            LET m == messages[Len(exch.pre) + 1 + k]
                b == ev.batch[k]
            IN  /\ m.tool_calls.def
                /\ m.tool_calls.val =
                     IF b.tool_calls.def THEN b.tool_calls.val ELSE <<>>

\* a turn with two tool calls and a turn without the field were stored
\* after an earlier exchange
C17_Witness ==
  /\ ev.op = "chatResponse"
  /\ ev.batch = <<TurnTools, TurnText>>
  /\ Len(exch.pre) >= 2
  /\ messages[Len(exch.pre) + 2].tool_calls.val = <<CallSearch, CallCalc>>
  /\ messages[Len(exch.pre) + 3].tool_calls.val = <<>>

\* C18: the loading flag is true exactly while a fetch of /api/chat is in
\* flight.
C18_LoadingIffInFlight == isLoading <=> chatPending # <<>>

\* the flag is up with the request of the accepted submission in flight
C18_Witness ==
  /\ isLoading
  /\ Len(chatPending) = 1
  /\ ev = Event("submit", "accepted")

\* C19: a submit attempt and the handling of a chat response leave the
\* connection state, the tool snapshot and the handshakes and loads in
\* flight as they were; starting a connect, a handshake that settles and a
\* tool load that settles leave the timeline, the input, the loading flag
\* and the chat request in flight as they were.
C19_IndependentResources ==
  [][ /\ (SubmitAttempt
            \/ \E i \in 1..MaxSubmits, o \in ChatOutcomes : ChatResponse(i, o))
           => UNCHANGED <<connectionStatus, availableTools, connectPending,
                          toolsPending>>
      /\ (initializeConnection
            \/ (\E o \in ConnectOutcomes : ConnectResponse(o))
            \/ (\E o \in ToolsOutcomes : LoadToolsResponse(o)))
           => UNCHANGED <<messages, inputValue, isLoading, chatPending,
                          chatCalls>> ]_vars

\* a tool load settled while a submission was in flight
C19_Witness ==
  /\ ev = Event("toolsResponse", "ok")
  /\ Len(chatPending) = 1
  /\ Len(messages) = 1
  /\ availableTools = Arr(<<ToolA, ToolB>>)

\* C20: the step that sends a chat request appends the user turn, and does
\* so only when no earlier request is in flight; when the response is
\* handled that user turn is still the last turn, and the turns of the
\* exchange are appended after it.
C20_ExchangeTurnsFollowUserTurn ==
  [][ /\ chatCalls' > chatCalls
           => /\ chatPending = <<>>
              /\ Len(messages') = Len(messages) + 1
              /\ IsPrefix(messages, messages')
              /\ messages'[Len(messages')].role = "user"
              /\ messages'[Len(messages')].content = inputValue
      /\ \A i \in 1..MaxSubmits, o \in ChatOutcomes :
           ChatResponse(i, o)
             => /\ Len(messages) = Len(exch.pre) + 1
                /\ messages[Len(messages)].role = "user"
                /\ messages[Len(messages)].content = exch.text
                /\ IsPrefix(messages, messages')
                /\ Len(messages') > Len(messages) ]_vars

\* the second exchange has put its turns after its user turn
C20_Witness ==
  /\ ev.op = "chatResponse"
  /\ Len(exch.pre) >= 2
  /\ Len(messages) >= Len(exch.pre) + 2
  /\ messages[Len(exch.pre) + 1].role = "user"

\* C16: for every backend response, success or not, whose body decodes the
\* proxy answers with the backend's status code; when the backend is
\* unreachable or its body does not decode the proxy answers with a body of
\* the form { error: string }.
C16_ProxyPassesStatusThrough ==
  \A k \in DOMAIN proxy.answered :
    LET x == proxy.answered[k] IN
      x.method = "GET"
        => IF x.backend.reached /\ x.backend.decodable
             THEN x.res.status = x.backend.status
             ELSE x.res.body.hasError

====
